---- MODULE Spec2Model ----
(***************************************************************************)
(* Marketing campaign dashboard (src/app.py): one Streamlit session.       *)
(* The script is rerun from its first line whenever a sidebar widget       *)
(* changes; st.cache_data keeps the loaded table across reruns and the     *)
(* widgets keep their selections.  A script run is a straight line of      *)
(* steps: load, sidebar, filter, KPIs, funnel, time series, campaign       *)
(* rollup, location rollup.                                                *)
(*                                                                         *)
(* A data frame is a sequence of records (one per row, in row order).      *)
(* Categorical values, user ids and amounts are integers; a timestamp is   *)
(* a number of hours; a missing cell is NA.  Ratios are exact fractions    *)
(* [num, den] in lowest terms (the code computes them in floating point);  *)
(* den = 0 stands for the float results of a division by zero: num = 1 is  *)
(* inf and num = 0 is NaN.                                                 *)
(* sort_values is not a stable sort: the location rollup is any of the     *)
(* results that differ in the order of rows of equal rate.                 *)
(* No two live names ever refer to one mutable frame: st.cache_data hands  *)
(* out a copy on every call and boolean indexing builds a new frame, so    *)
(* frames are modelled as values.                                          *)
(***************************************************************************)
EXTENDS Integers, Sequences, FiniteSets, TLC

VARIABLES
    file,           \* rows of ecommerce_campaign_data.csv
    cache,          \* st.cache_data entry of load_data: <<>> or <<frame>>
    ui,             \* widget state: per multiselect, <<>> (not registered) or <<selection>>
    pc,             \* position of the running script
    df,             \* the script's df
    campaign,       \* the script's campaign, device, location
    device,
    location,
    kpi,            \* total_users, clicked, purchased, revenue, ctr, conversion_rate, aov
    funnel,
    daily,
    campaign_perf,
    loc_df,
    ranBefore       \* history: a script run of this session has completed

vars == <<file, cache, ui, pc, df, campaign, device, location,
          kpi, funnel, daily, campaign_perf, loc_df, ranBefore>>

-----------------------------------------------------------------------------
(* Bounds of the model *)

MaxRows == 2            \* rows of a narrow input file
MaxLocations == 16      \* rows (one per location) of a wide input file
MaxDeselected == 2      \* options left unselected over the three widgets

(* Program constants *)

top_n == 15
HoursPerDay == 24
NA == -1

-----------------------------------------------------------------------------
(* Input files *)

Row(u, ts, c, d, l, ck, pv, ac, p, amt) ==
    [user_id |-> u, timestamp |-> ts, campaign_id |-> c, device_type |-> d,
     location |-> l, clicked_ad |-> ck, products_viewed |-> pv,
     added_to_cart |-> ac, purchased |-> p, purchase_amount |-> amt]

RowUniverse ==
    { Row(1,  1 * HoursPerDay + 9,  1, 1, 1, 1, 2, 1, 1, 50),
      Row(2,  1 * HoursPerDay + 20, 1, 2, 2, 1, 0, 0, 1, 30),
      Row(1,  3 * HoursPerDay + 1,  2, 1, 1, 0, 1, 1, 0, 0),
      Row(NA, 3 * HoursPerDay + 8,  2, 2, 2, 0, 0, 0, 0, 20),
      Row(NA, 2 * HoursPerDay + 2,  1, 1, 2, 1, 3, 0, 1, 10),
      Row(2,  1 * HoursPerDay + 6,  2, 2, 1, 1, 1, 2, 0, 0) }

RECURSIVE SeqsUpTo(_, _)
SeqsUpTo(S, n) ==
    IF n = 0 THEN { <<>> }
    ELSE LET shorter == SeqsUpTo(S, n - 1)
         IN shorter \cup { Append(s, x) : s \in { t \in shorter : Len(t) = n - 1 }, x \in S }

\* Files of up to MaxRows rows, the file with a header line only among them.
NarrowFiles == SeqsUpTo(RowUniverse, MaxRows)

\* Conversion rates of the locations of a wide file, as <<purchases, rows>>,
\* from the highest to the lowest, no two equal.
RateTable ==
    << <<1, 1>>, <<6, 7>>, <<5, 6>>, <<4, 5>>, <<3, 4>>, <<5, 7>>, <<2, 3>>,
       <<3, 5>>, <<4, 7>>, <<1, 2>>, <<3, 7>>, <<2, 5>>, <<1, 3>>, <<1, 4>>,
       <<1, 5>>, <<1, 6>>, <<0, 1>> >>

RateEntry(k) == RateTable[((k - 1) % Len(RateTable)) + 1]

\* The rate of location l of n: "desc" gives location 1 the highest rate, "asc"
\* gives it to location n, "tie" is "desc" with the last two locations equal.
RateAt(n, shape, l) ==
    CASE shape = "desc" -> RateEntry(l)
      [] shape = "asc"  -> RateEntry(n + 1 - l)
      [] shape = "tie"  -> RateEntry(IF l = n /\ n > 1 THEN n - 1 ELSE l)

\* The rows of location l: pu[2] rows, the first pu[1] of them purchases.
LocationRows(l, pu) ==
    [j \in 1..pu[2] |->
        Row(l, HoursPerDay + (l % HoursPerDay), 1, 1, l, 1, 1, 0,
            IF j <= pu[1] THEN 1 ELSE 0, IF j <= pu[1] THEN 10 ELSE 0)]

RECURSIVE WideRows(_, _, _)
WideRows(n, shape, l) ==
    IF l > n THEN <<>>
    ELSE LocationRows(l, RateAt(n, shape, l)) \o WideRows(n, shape, l + 1)

WideFile(n, shape) == WideRows(n, shape, 1)

WideFiles == { WideFile(MaxLocations, shape) : shape \in {"desc", "asc", "tie"} }

-----------------------------------------------------------------------------
(* Arithmetic *)

RECURSIVE GCD(_, _)
GCD(a, b) == IF b = 0 THEN a ELSE GCD(b, a % b)

\* n / d for n >= 0, d >= 0, as numpy's float division does it.
Ratio(n, d) ==
    IF d = 0 THEN [num |-> IF n > 0 THEN 1 ELSE 0, den |-> 0]
    ELSE LET g == GCD(n, d) IN [num |-> n \div g, den |-> d \div g]

Zero == Ratio(0, 1)
IsNaN(x) == x.num = 0 /\ x.den = 0
\* x < y as floats compare (false when either is NaN)
Less(x, y) == ~IsNaN(x) /\ ~IsNaN(y) /\ x.num * y.den < y.num * x.den

Min(a, b) == IF a <= b THEN a ELSE b

-----------------------------------------------------------------------------
(* Data frame operations *)

RECURSIVE SumCol(_, _)
SumCol(frame, col) ==
    IF frame = <<>> THEN 0 ELSE frame[1][col] + SumCol(Tail(frame), col)

RECURSIVE CountPositive(_, _)
CountPositive(frame, col) ==
    IF frame = <<>> THEN 0
    ELSE (IF frame[1][col] > 0 THEN 1 ELSE 0) + CountPositive(Tail(frame), col)

RECURSIVE CountNotNA(_, _)
CountNotNA(frame, col) ==
    IF frame = <<>> THEN 0
    ELSE (IF frame[1][col] # NA THEN 1 ELSE 0) + CountNotNA(Tail(frame), col)

unique(frame, col) == { frame[i][col] : i \in DOMAIN frame }

RECURSIVE BoolIndex(_, _)
BoolIndex(frame, mask) ==
    IF frame = <<>> THEN <<>>
    ELSE (IF mask[1] THEN <<frame[1]>> ELSE <<>>) \o BoolIndex(Tail(frame), Tail(mask))

RECURSIVE SortAsc(_)
SortAsc(S) ==
    IF S = {} THEN <<>>
    ELSE LET m == CHOOSE x \in S : \A y \in S : x <= y
         IN <<m>> \o SortAsc(S \ {m})

\* groupby(col): the keys present, ascending.
GroupKeys(frame, col) == SortAsc(unique(frame, col) \ {NA})

Group(frame, col, k) ==
    BoolIndex(frame, [i \in 1..Len(frame) |-> frame[i][col] = k])

head(frame, n) == SubSeq(frame, 1, Min(n, Len(frame)))

-----------------------------------------------------------------------------
(* The script's steps *)

load_data(cached, contents) == IF cached = <<>> THEN contents ELSE cached[1]

\* read_csv(..., parse_dates=["timestamp"]): the dtype of the timestamp column.
\* A file with no data row is read on the empty-frame path, which converts no
\* dates and leaves the column as object.
TimestampDtype(contents) == IF Len(contents) = 0 THEN "object" ELSE "datetime64"

AllOptions(frame) ==
    [campaign |-> unique(frame, "campaign_id"),
     device   |-> unique(frame, "device_type"),
     location |-> unique(frame, "location")]

\* Variant: the widget forgets the user's selection and returns its default.
multiselectDefaultOnly(state, key, default) == default

multiselect(state, key, default) ==
    IF state[key] = <<>> THEN default ELSE state[key][1]

\* The widget state after a multiselect call: a widget called for the first
\* time in the session is registered with the value it returned.
Registered(state, key, value) ==
    IF state[key] = <<>> THEN [state EXCEPT ![key] = <<value>>] ELSE state

\* Variant: the three masks joined with | instead of &.
FilterStageAnyDimension(frame, cs, ds, ls) ==
    BoolIndex(frame, [i \in 1..Len(frame) |->
        \/ frame[i].campaign_id \in cs
        \/ frame[i].device_type \in ds
        \/ frame[i].location \in ls])

FilterStage(frame, cs, ds, ls) ==
    BoolIndex(frame, [i \in 1..Len(frame) |->
        /\ frame[i].campaign_id \in cs
        /\ frame[i].device_type \in ds
        /\ frame[i].location \in ls])

\* Variant: aov divides without the "if purchased" guard.
KpiAggregatorUnguardedAov(frame) ==
    LET total_users == Len(frame)
        clicked     == SumCol(frame, "clicked_ad")
        purchased   == SumCol(frame, "purchased")
        revenue     == SumCol(frame, "purchase_amount")
    IN [total_users     |-> total_users,
        clicked         |-> clicked,
        purchased       |-> purchased,
        revenue         |-> revenue,
        ctr             |-> IF total_users # 0 THEN Ratio(100 * clicked, total_users) ELSE Zero,
        conversion_rate |-> IF total_users # 0 THEN Ratio(100 * purchased, total_users) ELSE Zero,
        aov             |-> Ratio(revenue, purchased)]

KpiAggregator(frame) ==
    LET total_users == Len(frame)
        clicked     == SumCol(frame, "clicked_ad")
        purchased   == SumCol(frame, "purchased")
        revenue     == SumCol(frame, "purchase_amount")
    IN [total_users     |-> total_users,
        clicked         |-> clicked,
        purchased       |-> purchased,
        revenue         |-> revenue,
        ctr             |-> IF total_users # 0 THEN Ratio(100 * clicked, total_users) ELSE Zero,
        conversion_rate |-> IF total_users # 0 THEN Ratio(100 * purchased, total_users) ELSE Zero,
        aov             |-> IF purchased # 0 THEN Ratio(revenue, purchased) ELSE Zero]

FunnelAggregator(frame) ==
    << [stage |-> "Clicked Ad",     users |-> SumCol(frame, "clicked_ad")],
       [stage |-> "Viewed Product", users |-> CountPositive(frame, "products_viewed")],
       [stage |-> "Added to Cart",  users |-> CountPositive(frame, "added_to_cart")],
       [stage |-> "Purchased",      users |-> SumCol(frame, "purchased")] >>

DateOf(ts) == ts \div HoursPerDay

AddDateColumn(frame) ==
    [i \in 1..Len(frame) |-> frame[i] @@ [date |-> DateOf(frame[i].timestamp)]]

\* Variant: only the rows with a purchase are grouped.
DailySeriesPurchaseDays(frame) ==
    LET bought == BoolIndex(frame, [i \in 1..Len(frame) |-> frame[i].purchased > 0])
        keys   == GroupKeys(bought, "date")
    IN [k \in 1..Len(keys) |->
           [date |-> keys[k],
            purchases |-> SumCol(Group(bought, "date", keys[k]), "purchased")]]

DailySeries(frame) ==
    LET keys == GroupKeys(frame, "date")
    IN [k \in 1..Len(keys) |->
           [date |-> keys[k],
            purchases |-> SumCol(Group(frame, "date", keys[k]), "purchased")]]

\* Variant: the KPI policy, 0 when there is no purchase.
CampaignAovZeroGuard(revenue, purchases) ==
    IF purchases = 0 THEN Zero ELSE Ratio(revenue, purchases)

CampaignAov(revenue, purchases) ==
    Ratio(revenue, IF purchases = 0 THEN 1 ELSE purchases)

CampaignRollup(frame) ==
    LET keys == GroupKeys(frame, "campaign_id")
    IN [k \in 1..Len(keys) |->
           LET g         == Group(frame, "campaign_id", keys[k])
               users     == CountNotNA(g, "user_id")
               clicks    == SumCol(g, "clicked_ad")
               purchases == SumCol(g, "purchased")
               revenue   == SumCol(g, "purchase_amount")
           IN [campaign_id         |-> keys[k],
               users               |-> users,
               clicks              |-> clicks,
               purchases           |-> purchases,
               revenue             |-> revenue,
               ctr_pct             |-> Ratio(100 * clicks, users),
               conversion_rate_pct |-> Ratio(100 * purchases, users),
               aov                 |-> CampaignAov(revenue, purchases)]]

LocationGroups(frame) ==
    LET keys == GroupKeys(frame, "location")
    IN [k \in 1..Len(keys) |->
           LET g         == Group(frame, "location", keys[k])
               users     == CountNotNA(g, "user_id")
               purchases == SumCol(g, "purchased")
           IN [location            |-> keys[k],
               users               |-> users,
               purchases           |-> purchases,
               conversion_rate_pct |-> Ratio(100 * purchases, users)]]

Rate(r) == r.conversion_rate_pct

\* The frames that hold the sorted rows and x, x at any place that keeps the
\* rates descending: behind every higher rate, before every lower one, anywhere
\* among the equal ones.
InsertDesc(sorted, x) ==
    LET higher == Cardinality({ p \in DOMAIN sorted : Less(Rate(x), Rate(sorted[p])) })
        lower  == Cardinality({ p \in DOMAIN sorted : Less(Rate(sorted[p]), Rate(x)) })
    IN { SubSeq(sorted, 1, at - 1) \o <<x>> \o SubSeq(sorted, at, Len(sorted)) :
            at \in (higher + 1)..(Len(sorted) - lower + 1) }

\* Every descending order of the rows of frame (none of them NaN).
RECURSIVE DescendingOrders(_)
DescendingOrders(frame) ==
    IF frame = <<>> THEN { <<>> }
    ELSE UNION { InsertDesc(s, frame[Len(frame)]) :
                    s \in DescendingOrders(SubSeq(frame, 1, Len(frame) - 1)) }

\* sort_values("Conversion Rate (%)", ascending=False), kind="quicksort": the
\* rows with a rate in descending order, rows of equal rate in an order the
\* sort does not fix, then the NaN rows in their order.  The set of the frames
\* it can return.
SortValuesDesc(frame) ==
    LET rated == BoolIndex(frame, [i \in 1..Len(frame) |-> ~IsNaN(Rate(frame[i]))])
        nans  == BoolIndex(frame, [i \in 1..Len(frame) |-> IsNaN(Rate(frame[i]))])
    IN { s \o nans : s \in DescendingOrders(rated) }

\* Variant: head(top_n) taken before sort_values.
LocationRollupHeadFirst(frame) == SortValuesDesc(head(LocationGroups(frame), top_n))

\* The frames loc_df can be after the sort and head(top_n).
LocationRollup(frame) == { head(s, top_n) : s \in SortValuesDesc(LocationGroups(frame)) }

-----------------------------------------------------------------------------
(* The session *)

Init ==
    /\ file \in NarrowFiles \cup WideFiles
    /\ cache = <<>>
    /\ ui = [campaign |-> <<>>, device |-> <<>>, location |-> <<>>]
    /\ pc = "load"
    /\ df = <<>>
    /\ campaign = {} /\ device = {} /\ location = {}
    /\ kpi = <<>> /\ funnel = <<>> /\ daily = <<>>
    /\ campaign_perf = <<>> /\ loc_df = <<>>
    /\ ranBefore = FALSE

Outputs == <<kpi, funnel, daily, campaign_perf, loc_df>>

\* df = load_data()
Load ==
    /\ pc = "load"
    /\ df' = load_data(cache, file)
    /\ cache' = <<df'>>
    /\ pc' = "campaign_select"
    /\ UNCHANGED <<file, ui, campaign, device, location, Outputs, ranBefore>>

\* campaign = st.sidebar.multiselect("Campaign ID", ...)
CampaignSelect ==
    /\ pc = "campaign_select"
    /\ campaign' = multiselect(ui, "campaign", AllOptions(df).campaign)
    /\ ui' = Registered(ui, "campaign", campaign')
    /\ pc' = "device_select"
    /\ UNCHANGED <<file, cache, df, device, location, Outputs, ranBefore>>

\* device = st.sidebar.multiselect("Device Type", ...)
DeviceSelect ==
    /\ pc = "device_select"
    /\ device' = multiselect(ui, "device", AllOptions(df).device)
    /\ ui' = Registered(ui, "device", device')
    /\ pc' = "location_select"
    /\ UNCHANGED <<file, cache, df, campaign, location, Outputs, ranBefore>>

\* location = st.sidebar.multiselect("Location", ...)
LocationSelect ==
    /\ pc = "location_select"
    /\ location' = multiselect(ui, "location", AllOptions(df).location)
    /\ ui' = Registered(ui, "location", location')
    /\ pc' = "filter"
    /\ UNCHANGED <<file, cache, df, campaign, device, Outputs, ranBefore>>

\* df = df[isin & isin & isin]
Filter ==
    /\ pc = "filter"
    /\ df' = FilterStage(df, campaign, device, location)
    /\ pc' = "kpi"
    /\ UNCHANGED <<file, cache, ui, campaign, device, location, Outputs, ranBefore>>

KPIs ==
    /\ pc = "kpi"
    /\ kpi' = KpiAggregator(df)
    /\ pc' = "funnel"
    /\ UNCHANGED <<file, cache, ui, df, campaign, device, location,
                   funnel, daily, campaign_perf, loc_df, ranBefore>>

Funnel ==
    /\ pc = "funnel"
    /\ funnel' = FunnelAggregator(df)
    /\ pc' = "daily"
    /\ UNCHANGED <<file, cache, ui, df, campaign, device, location,
                   kpi, daily, campaign_perf, loc_df, ranBefore>>

\* df["date"] = df["timestamp"].dt.date; daily = df.groupby("date")...
\* The filtered frame keeps the column dtypes of the frame load_data returned.
TimeSeries ==
    /\ pc = "daily"
    /\ TimestampDtype(cache[1]) = "datetime64"
    /\ df' = AddDateColumn(df)
    /\ daily' = DailySeries(df')
    /\ pc' = "campaign"
    /\ UNCHANGED <<file, cache, ui, campaign, device, location,
                   kpi, funnel, campaign_perf, loc_df, ranBefore>>

\* df["timestamp"].dt on an object column raises AttributeError ("Can only use
\* .dt accessor with datetimelike values"): the run ends there, with nothing
\* assigned by the statement.
TimeSeriesRaises ==
    /\ pc = "daily"
    /\ TimestampDtype(cache[1]) # "datetime64"
    /\ pc' = "failed"
    /\ UNCHANGED <<file, cache, ui, df, campaign, device, location, Outputs, ranBefore>>

CampaignPerformance ==
    /\ pc = "campaign"
    /\ campaign_perf' = CampaignRollup(df)
    /\ pc' = "location"
    /\ UNCHANGED <<file, cache, ui, df, campaign, device, location,
                   kpi, funnel, daily, loc_df, ranBefore>>

LocationInsights ==
    /\ pc = "location"
    /\ loc_df' \in LocationRollup(df)
    /\ pc' = "done"
    /\ UNCHANGED <<file, cache, ui, df, campaign, device, location,
                   kpi, funnel, daily, campaign_perf, ranBefore>>

WidgetKeys == {"campaign", "device", "location"}

\* Options of the registered widgets that are not selected.
Deselected(state, opts) ==
    LET missing(key) == IF state[key] = <<>> THEN 0
                        ELSE Cardinality(opts[key] \ state[key][1])
    IN missing("campaign") + missing("device") + missing("location")

\* A widget changed: Streamlit stops the run in progress, wherever it is, and
\* runs the script again from the top in a fresh namespace.  Widgets the
\* stopped run had not reached yet stay unregistered.
Rerun(state) ==
    /\ ui' = state
    /\ pc' = "load"
    /\ df' = <<>>
    /\ campaign' = {} /\ device' = {} /\ location' = {}
    /\ kpi' = <<>> /\ funnel' = <<>> /\ daily' = <<>>
    /\ campaign_perf' = <<>> /\ loc_df' = <<>>
    /\ ranBefore' = (ranBefore \/ pc = "done")
    /\ UNCHANGED <<file, cache>>

\* The user removes one selected option of a multiselect on the page.
Deselect ==
    \E key \in WidgetKeys :
        /\ ui[key] # <<>>
        /\ \E v \in ui[key][1] :
              LET state == [ui EXCEPT ![key] = <<@[1] \ {v}>>]
              IN /\ Deselected(state, AllOptions(cache[1])) <= MaxDeselected
                 /\ Rerun(state)

\* The user adds one option of a multiselect on the page back.
Select ==
    \E key \in WidgetKeys :
        /\ ui[key] # <<>>
        /\ \E v \in AllOptions(cache[1])[key] \ ui[key][1] :
              Rerun([ui EXCEPT ![key] = <<@[1] \cup {v}>>])

Next ==
    \/ Load
    \/ CampaignSelect
    \/ DeviceSelect
    \/ LocationSelect
    \/ Filter
    \/ KPIs
    \/ Funnel
    \/ TimeSeries
    \/ TimeSeriesRaises
    \/ CampaignPerformance
    \/ LocationInsights
    \/ Deselect
    \/ Select

Spec == Init /\ [][Next]_vars

-----------------------------------------------------------------------------
(* Properties *)

AfterKpi   == {"funnel", "daily", "campaign", "location", "done", "failed"}
AfterDaily == {"campaign", "location", "done"}

\* Number of rows of df whose 0/1 column col is set.
Ones(col) == Cardinality({ i \in DOMAIN df : df[i][col] = 1 })

Allowed(r) ==
    r.campaign_id \in campaign /\ r.device_type \in device /\ r.location \in location

KeptRows == { i \in DOMAIN file : Allowed(file[i]) }

\* C1: right after the filter stage, df holds exactly the rows of the row store
\* whose campaign_id, device_type and location are each in the allowed set, in
\* file order and multiplicity; an empty allowed set gives an empty view.
C1_FilterSelectsExactly ==
    pc = "kpi" =>
        /\ Len(df) = Cardinality(KeptRows)
        /\ \A i \in KeptRows : df[Cardinality({ j \in KeptRows : j <= i })] = file[i]
        /\ (campaign = {} \/ device = {} \/ location = {}) => df = <<>>

\* A filter that keeps some rows and drops others.
C1_Witness == pc = "kpi" /\ Len(df) >= 1 /\ Len(df) < Len(file)

\* C2: total_users is the row count; ctr and conversion_rate are 100 * sum / rows
\* (0 for no rows); aov is revenue / purchases (0 for no purchase, whatever the
\* revenue); no KPI is the result of a division by zero.
C2_KpiValues ==
    pc \in AfterKpi =>
        LET n    == Len(df)
            buys == Ones("purchased")
            rev  == SumCol(df, "purchase_amount")
        IN /\ kpi.total_users = n
           /\ kpi.ctr.den > 0 /\ kpi.conversion_rate.den > 0 /\ kpi.aov.den > 0
           /\ kpi.ctr.num * n = 100 * Ones("clicked_ad") * kpi.ctr.den
           /\ kpi.conversion_rate.num * n = 100 * buys * kpi.conversion_rate.den
           /\ n = 0 => kpi.ctr.num = 0 /\ kpi.conversion_rate.num = 0
           /\ buys > 0 => kpi.aov.num * buys = rev * kpi.aov.den
           /\ buys = 0 => kpi.aov.num = 0

\* Rows with revenue and no purchase: aov is 0.
C2_Witness ==
    /\ pc = "funnel"
    /\ kpi.total_users = 2 /\ kpi.purchased = 0 /\ kpi.revenue > 0 /\ kpi.clicked = 1
    /\ kpi.aov = Zero

\* C3 (as claimed): over an empty filtered view no aggregator fails, and the run
\* ends with KPIs 0, 0, 0, 0, four funnel counts of 0, and empty daily series,
\* campaign rollup and location rollup.
C3_EmptyView ==
    /\ ~(pc = "failed" /\ df = <<>>)
    /\ (pc = "done" /\ df = <<>>) =>
          /\ kpi.total_users = 0 /\ kpi.ctr = Zero
          /\ kpi.conversion_rate = Zero /\ kpi.aov = Zero
          /\ Len(funnel) = 4 /\ \A k \in DOMAIN funnel : funnel[k].users = 0
          /\ daily = <<>> /\ campaign_perf = <<>> /\ loc_df = <<>>

\* C4 (as claimed): one campaign row per campaign id present, its users the
\* number of rows of that campaign, the users adding up to total_users.
C4_CampaignPartition ==
    pc = "done" =>
        /\ Len(campaign_perf) = Cardinality(unique(df, "campaign_id"))
        /\ \A k \in DOMAIN campaign_perf :
              campaign_perf[k].users =
                  Cardinality({ i \in DOMAIN df :
                                  df[i].campaign_id = campaign_perf[k].campaign_id })
        /\ SumCol(campaign_perf, "users") = kpi.total_users

\* C5 (as claimed): after the aggregators df is what the filter stage produced,
\* the same rows with the same fields, and the row store is unchanged.
C5_ViewUntouched ==
    pc = "done" =>
        /\ df = FilterStage(file, campaign, device, location)
        /\ cache = <<file>>

DatesPresent == { df[i].timestamp \div HoursPerDay : i \in DOMAIN df }

\* C6: daily has one entry per calendar date among the rows' timestamps, with
\* the number of purchases of that date (also when 0), in strictly ascending
\* date order, and no entry for a date without rows.
C6_DailySeries ==
    pc \in AfterDaily =>
        /\ Len(daily) = Cardinality(DatesPresent)
        /\ \A k \in DOMAIN daily :
              /\ daily[k].date \in DatesPresent
              /\ daily[k].purchases =
                     Cardinality({ i \in DOMAIN df :
                                     /\ df[i].timestamp \div HoursPerDay = daily[k].date
                                     /\ df[i].purchased = 1 })
        /\ \A k \in 1..(Len(daily) - 1) : daily[k].date < daily[k + 1].date

\* Rows out of date order in the file, a gap between the two dates, and a date
\* without purchase.
C6_Witness ==
    /\ pc = "campaign"
    /\ Len(df) = 2 /\ df[1].timestamp > df[2].timestamp
    /\ Len(daily) = 2 /\ daily[2].date > daily[1].date + 1
    /\ daily[1].purchases = 1 /\ daily[2].purchases = 0

\* The ratio the location rollup gives location l.
RateOf(l) ==
    Ratio(100 * Cardinality({ i \in DOMAIN df : df[i].location = l /\ df[i].purchased = 1 }),
          Cardinality({ i \in DOMAIN df : df[i].location = l /\ df[i].user_id # NA }))

Retained == { loc_df[k].location : k \in DOMAIN loc_df }

\* C7: loc_df has one row per retained location, at most min(top_n, number of
\* locations present) rows, no row with a lower conversion rate before one with
\* a higher, and no omitted location with a higher rate than a retained one.
C7_LocationTopN ==
    pc = "done" =>
        LET present == unique(df, "location")
        IN /\ Retained \subseteq present
           /\ Cardinality(Retained) = Len(loc_df)
           /\ Len(loc_df) <= Min(top_n, Cardinality(present))
           /\ \A j, k \in DOMAIN loc_df :
                 j < k => ~Less(loc_df[j].conversion_rate_pct, loc_df[k].conversion_rate_pct)
           /\ \A k \in DOMAIN loc_df :
                 loc_df[k].conversion_rate_pct = RateOf(loc_df[k].location)
           /\ \A l \in present \ Retained : \A k \in DOMAIN loc_df :
                 ~Less(loc_df[k].conversion_rate_pct, RateOf(l))

\* More than top_n locations, of different rates: the rollup is cut to top_n.
C7_Witness ==
    /\ pc = "done"
    /\ Cardinality(unique(df, "location")) > top_n
    /\ Len(loc_df) = top_n
    /\ Less(loc_df[top_n].conversion_rate_pct, loc_df[1].conversion_rate_pct)

\* C8: every campaign row has aov = revenue / max(purchases, 1): revenue itself
\* when the campaign has no purchase, revenue / purchases otherwise.
C8_CampaignAovFloor ==
    pc = "done" =>
        \A k \in DOMAIN campaign_perf :
            LET r == campaign_perf[k]
            IN /\ r.aov.den > 0
               /\ r.purchases = 0 => (r.aov.num = r.revenue /\ r.aov.den = 1)
               /\ r.purchases >= 1 => r.aov.num * r.purchases = r.revenue * r.aov.den

\* A campaign without purchase and with revenue, where the KPI aov is 0.
C8_Witness ==
    /\ pc = "done"
    /\ kpi.aov = Zero
    /\ \E k \in DOMAIN campaign_perf :
          /\ campaign_perf[k].purchases = 0
          /\ campaign_perf[k].revenue > 0
          /\ campaign_perf[k].aov.num = campaign_perf[k].revenue

Percent(x) == x.den > 0 /\ 0 <= x.num /\ x.num <= 100 * x.den

\* C9 (as claimed): every group of the location and campaign rollups has
\* users >= 1, and its ratios are defined and between 0 and 100.
C9_GroupsHaveUsers ==
    pc = "done" =>
        /\ \A k \in DOMAIN loc_df :
              loc_df[k].users >= 1 /\ Percent(loc_df[k].conversion_rate_pct)
        /\ \A k \in DOMAIN campaign_perf :
              /\ campaign_perf[k].users >= 1
              /\ Percent(campaign_perf[k].conversion_rate_pct)
              /\ Percent(campaign_perf[k].ctr_pct)

\* The selections of the three widgets, once all are registered.
Selections ==
    [campaign |-> ui.campaign[1], device |-> ui.device[1], location |-> ui.location[1]]

\* What one run of the script over store with the allowed sets of state yields;
\* loc_df_any holds the frames the location rollup can yield.
FreshRun(store, state) ==
    LET view  == FilterStage(store, state.campaign, state.device, state.location)
        dated == AddDateColumn(view)
    IN [df            |-> dated,
        kpi           |-> KpiAggregator(view),
        funnel        |-> FunnelAggregator(view),
        daily         |-> DailySeries(dated),
        campaign_perf |-> CampaignRollup(dated),
        loc_df_any    |-> LocationRollup(dated)]

\* C10: whatever filter changes and runs came before, the cached row store is
\* the file as loaded, and a completed run shows the view and the results of a
\* fresh run over the file with the widgets' current selections (the location
\* rollup up to the order of locations of equal rate, which the sort leaves
\* open).
C10_RerunsAreFresh ==
    /\ cache # <<>> => cache = <<file>>
    /\ pc = "done" =>
          LET fresh == FreshRun(file, Selections)
          IN /\ df = fresh.df
             /\ kpi = fresh.kpi
             /\ funnel = fresh.funnel
             /\ daily = fresh.daily
             /\ campaign_perf = fresh.campaign_perf
             /\ loc_df \in fresh.loc_df_any

\* A run completed after an earlier completed run, with the selection changed.
C10_Witness ==
    /\ pc = "done" /\ ranBefore
    /\ Selections # AllOptions(file)
    /\ Len(df) >= 1 /\ Len(df) < Len(file)

====
